---- MODULE Spec2Model ----
(***************************************************************************)
(* Model of the slide-deck scripts of ai-economics-lecture:                *)
(*   verify-slides.js       per-slide report of slides.md                  *)
(*   generate-preview.js    static HTML preview of slides.md               *)
(*   tests/visual.test.js   layout assertions on slides.md                 *)
(*   tests/slides.test.js   structure and flow assertions on slides.md     *)
(* A text is a sequence of characters, each written as a one-character    *)
(* string.  Every script reads the file slides.md once and then works on   *)
(* that text in memory.                                                    *)
(***************************************************************************)
EXTENDS Integers, Sequences, FiniteSets, TLC

VARIABLES script, pc, slides, slideArray, index, total, report, summary,
          failure, browser, visits, shots, dirExists

vars == <<script, pc, slides, slideArray, index, total, report, summary,
          failure, browser, visits, shots, dirExists>>

\* the state only the screenshot script touches
captureVars == <<browser, visits, shots, dirExists>>

(***************************************************************************)
(* Bounds of the model.                                                    *)
(***************************************************************************)
MaxPieces == 4
MaxForbiddenPieces == 3
MaxLines == 32
MaxHeadingLines == 5
MaxMarkerSlides == 4
MaxListLines == 4
MaxHtmlPieces == 3
MaxFound == 3
MaxFencePieces == 3

(***************************************************************************)
(* String primitives of the JavaScript runtime.                            *)
(***************************************************************************)
RECURSIVE Concat(_)
Concat(ss) == IF ss = <<>> THEN <<>> ELSE Head(ss) \o Concat(Tail(ss))

\* String.prototype.repeat
Repeat(s, n) == [i \in 1..(n * Len(s)) |-> s[((i - 1) % Len(s)) + 1]]

Min(S) == CHOOSE x \in S : \A y \in S : x <= y

Max(S) == CHOOSE x \in S : \A y \in S : x >= y

\* p occurs in s at position i (1-based)
MatchAt(s, p, i) ==
    /\ i >= 1
    /\ i + Len(p) - 1 <= Len(s)
    /\ \A j \in 1..Len(p) : s[i + j - 1] = p[j]

\* String.prototype.includes
Includes(s, p) == \E i \in 1..(Len(s) - Len(p) + 1) : MatchAt(s, p, i)

\* String.prototype.split with a non-empty string separator: the pieces
\* between the non-overlapping occurrences found scanning left to right.
\* String.prototype.indexOf from position i (1-based), 0 when not found
IndexOf(s, p, i) ==
    LET hits == { k \in i..(Len(s) - Len(p) + 1) : MatchAt(s, p, k) }
    IN IF hits = {} THEN 0 ELSE Min(hits)

RECURSIVE SplitFrom(_, _, _)
SplitFrom(s, sep, start) ==
    LET q == IndexOf(s, sep, start)
    IN IF q = 0
       THEN <<SubSeq(s, start, Len(s))>>
       ELSE <<SubSeq(s, start, q - 1)>> \o SplitFrom(s, sep, q + Len(sep))

\* a split that stops after the first separator
SplitFirstOnly(s, sep) ==
    LET q == IndexOf(s, sep, 1)
    IN IF q = 0 THEN <<s>>
       ELSE <<SubSeq(s, 1, q - 1), SubSeq(s, q + Len(sep), Len(s))>>

\* a split that drops empty pieces at the end
RECURSIVE DropTrailingEmpty(_)
DropTrailingEmpty(arr) ==
    IF arr # <<>> /\ arr[Len(arr)] = <<>>
    THEN DropTrailingEmpty(SubSeq(arr, 1, Len(arr) - 1)) ELSE arr

SplitNoTrailing(s, sep) == DropTrailingEmpty(SplitFrom(s, sep, 1))

Split(s, sep) == SplitFrom(s, sep, 1)

\* Array.prototype.join
RECURSIVE Join(_, _)
Join(arr, sep) ==
    IF arr = <<>> THEN <<>>
    ELSE IF Len(arr) = 1 THEN arr[1]
    ELSE arr[1] \o sep \o Join(Tail(arr), sep)

IsWhiteSpace(c) == c \in {" ", "\n", "\t", "\r"}

IsLineTerminator(c) == c \in {"\n", "\r"}

\* String.prototype.trim: from the first to the last character that is
\* not white space
Trim(s) ==
    LET ink == { i \in 1..Len(s) : ~IsWhiteSpace(s[i]) }
    IN IF ink = {} THEN <<>> ELSE SubSeq(s, Min(ink), Max(ink))

\* truthiness of s.trim(): the empty string is falsy
Truthy(s) == s # <<>>

(***************************************************************************)
(* Literals of the scripts.                                                *)
(***************************************************************************)
NL == <<"\n">>
Delim == <<"-", "-", "-", "\n">>
Dashes == <<"-", "-", "-">>
Undefined == <<"u", "n", "d", "e", "f", "i", "n", "e", "d">>
Null == <<"n", "u", "l", "l">>
ObjectOpen == <<"[", "o", "b", "j", "e", "c", "t">>
PolicyEngine == <<"P", "o", "l", "i", "c", "y", "E", "n", "g", "i", "n", "e">>
\* the backquote character is written "bq"
Fence == <<"bq", "bq", "bq">>
ETI == <<"E", "T", "I">>
TDD == <<"T", "D", "D">>
TestDriven == <<"T", "e", "s", "t", "-", "D", "r", "i", "v", "e", "n">>
MaxGhenis == <<"M", "a", "x", " ", "G", "h", "e", "n", "i", "s">>
VegasAirport == <<"V", "e", "g", "a", "s", " ", "a", "i", "r", "p", "o", "r", "t">>
Opus4 == <<"O", "p", "u", "s", " ", "4">>
TurnEverything == <<"T", "u", "r", "n", " ", "E", "v", "e", "r", "y", "t", "h", "i", "n", "g">>
TweetId == <<"T", "w", "e", "e", "t", " ", "i", "d", "=">>
ImgTag == <<"<", "i", "m", "g">>
ImgMd == <<"!", "[">>

LayoutCover ==
    <<"l", "a", "y", "o", "u", "t", ":", " ", "c", "o", "v", "e", "r">>
LayoutKey ==
    <<"l", "a", "y", "o", "u", "t", ":">>
ClassKey ==
    <<"c", "l", "a", "s", "s", ":">>
Center ==
    <<"c", "e", "n", "t", "e", "r">>
TextCenter ==
    <<"t", "e", "x", "t", "-", "c", "e", "n", "t", "e", "r">>

NoTitle == <<"N", "o", " ", "t", "i", "t", "l", "e">>

\* thresholds of the scripts
VerifyLongLimit == 25
PreviewLongLimit == 25
VisualMaxLines == 30
BalancedMaxLines == 30
MaxH1PerSlide == 1
MaxH2PerSlide == 4

(***************************************************************************)
(* Contents of slides.md the scripts are run on.                           *)
(***************************************************************************)
TextsOf(F, n) == { Concat(ps) : ps \in UNION { [1..k -> F] : k \in 0..n } }

\* short texts around the delimiter
RawTexts ==
    TextsOf({<<"-">>, NL, <<"a">>, Delim, Dashes}, MaxPieces)

\* texts with and without the forbidden words, whole or cut
ForbiddenTexts ==
    TextsOf({Undefined, <<"u", "n", "d", "e", "f">>, Null, ObjectOpen,
             Delim, <<"a">>}, MaxForbiddenPieces)

\* a slide of k content lines followed by b blank lines
LongSlide(k, b) == Repeat(<<"a", "\n">>, k) \o Repeat(<<" ", "\n">>, b)

ThresholdCounts ==
    {0, VerifyLongLimit, VerifyLongLimit + 1, VisualMaxLines, VisualMaxLines + 1}

LengthTexts ==
    { LongSlide(k, b) : k \in 0..MaxLines, b \in 0..1 }
        \cup { LongSlide(k1, 0) \o Delim \o LongSlide(k2, 0) :
                   k1 \in ThresholdCounts, k2 \in ThresholdCounts }

\* a slide of n1 level-1, n2 level-2 and n3 level-3 heading lines
HeadingSlide(n1, n2, n3) ==
    Repeat(<<"#", " ", "a", "\n">>, n1)
        \o Repeat(<<"#", "#", " ", "a", "\n">>, n2)
        \o Repeat(<<"#", "#", "#", " ", "a", "\n">>, n3)

HeadingSlides ==
    { HeadingSlide(n1, n2, n3) :
          n1 \in 0..2, n2 \in 0..MaxHeadingLines, n3 \in 0..1 }

HeadingTexts ==
    HeadingSlides
        \cup { a \o Delim \o b :
                   a \in {HeadingSlide(1, 1, 0), HeadingSlide(2, 0, 0)},
                   b \in HeadingSlides }
        \cup TextsOf({<<"#", " ", "a", "\n">>, <<"#", "#", " ", "a", "\n">>,
                      <<"#", "a", "\n">>, <<" ", "#", " ", "a", "\n">>,
                      <<"#", " ">>, Delim}, 3)

\* decks whose slides carry the markers of the narrative arc
MarkerSlides ==
    {MaxGhenis, VegasAirport, Opus4, TurnEverything, MaxGhenis \o VegasAirport}

MarkerTexts ==
    { Join(ps, NL \o Delim) :
          ps \in UNION { [1..k -> MarkerSlides] : k \in 1..MaxMarkerSlides } }

\* a metadata block fenced by two delimiter lines
Fenced(block) == Delim \o block \o Delim

\* decks with and without metadata blocks at the opening and closing slide
LayoutOpenings ==
    {Fenced(LayoutCover \o NL), LayoutCover \o NL, <<>>}

LayoutClosings ==
    {Fenced(LayoutKey \o <<" ">> \o Center \o NL
                \o ClassKey \o <<" ">> \o TextCenter \o NL)
         \o <<"#", " ", "Q", "\n">>,
     Delim \o LayoutKey \o <<" ", " ">> \o Center \o NL,
     Delim \o ClassKey \o TextCenter \o NL,
     Delim \o <<"#", " ", "Q", "\n">>}

LayoutTexts ==
    { o \o <<"#", " ", "a", "\n">> \o c :
          o \in LayoutOpenings, c \in LayoutClosings }

\* decks of list lines, text lines and blank lines
ListTexts ==
    TextsOf({<<"-", " ", "a", "\n">>, <<"-", " ", "b">>, <<"x", "\n">>, NL},
            MaxListLines)

\* decks with raw markup in the slide text
ScriptOpen == <<"<", "s", "c", "r", "i", "p", "t", ">">>
ScriptClose == <<"<", "/", "s", "c", "r", "i", "p", "t", ">">>

HtmlTexts ==
    TextsOf({ScriptOpen, ScriptClose, <<"x">>, <<"&">>, NL}, MaxHtmlPieces)

\* the two-slide deck "# Title\n\n---\n## Second\ncontent\n"
EndToEndInput ==
    <<"#", " ", "T", "i", "t", "l", "e", "\n", "\n">> \o Delim
        \o <<"#", "#", " ", "S", "e", "c", "o", "n", "d", "\n">>
        \o <<"c", "o", "n", "t", "e", "n", "t", "\n">>

\* decks with fenced code: fence lines, lines of code, a delimiter line
FenceOpenings == {Fence \o <<"p", "y", "\n">>, Fence \o NL}

CodeLines ==
    {<<"#", " ", "c", "\n">>, <<"-", " ", "x", "\n">>,
     <<"*", "e", "*", "\n">>, <<"x", "\n">>}

FenceTexts ==
    TextsOf(FenceOpenings \cup CodeLines \cup {Delim}, MaxFencePieces)

Inputs == RawTexts \cup ForbiddenTexts \cup LengthTexts
              \cup HeadingTexts \cup MarkerTexts \cup LayoutTexts
              \cup ListTexts \cup HtmlTexts \cup {EndToEndInput}
              \cup FenceTexts

Scripts == {"verify", "preview", "visualLong", "visualFormat",
            "visualLayouts", "visualHeadings", "narrativeArc", "balanced"}

(***************************************************************************)
(* Per-slide computations.                                                 *)
(***************************************************************************)
LineStart(s, i) == i = 1 \/ IsLineTerminator(s[i - 1])

\* end of the line that holds position i: the last position before the
\* next line terminator
LineEnd(s, i) ==
    LET ends == { k \in i..Len(s) : IsLineTerminator(s[k]) }
    IN IF ends = {} THEN Len(s) ELSE Min(ends) - 1

\* slide.match(/^# (.+)$/m): positions where the pattern matches
TitleMatches(slide) ==
    { i \in 1..Len(slide) :
          /\ LineStart(slide, i)
          /\ MatchAt(slide, <<"#", " ">>, i)
          /\ LineEnd(slide, i + 2) >= i + 2 }

\* title of a slide: first capture of the first match, or 'No title'
Title(slide) ==
    IF TitleMatches(slide) = {} THEN NoTitle
    ELSE LET i == Min(TitleMatches(slide))
         IN SubSeq(slide, i + 2, LineEnd(slide, i + 2))

\* slide.split('\n').filter(line => line.trim()).length
ContentLines(slide) ==
    Len(SelectSeq(Split(slide, NL), LAMBDA line : Truthy(Trim(line))))

\* the issues list of verify-slides, in push order
VerifyIssues(slide) ==
    (IF ContentLines(slide) > VerifyLongLimit THEN <<"too long">> ELSE <<>>)
        \o (IF Includes(slide, Undefined) THEN <<"undefined">> ELSE <<>>)
        \o (IF Includes(slide, ObjectOpen) THEN <<"[object">> ELSE <<>>)

\* the check marks verify-slides prints for a slide, in print order
VerifyChecks(slide, i) ==
    (IF i = 0 THEN <<"Title slide">> ELSE <<>>)
        \o (IF Includes(slide, PolicyEngine) THEN <<"PolicyEngine">> ELSE <<>>)
        \o (IF Includes(slide, Fence) THEN <<"code block">> ELSE <<>>)
        \o (IF Includes(slide, ETI) THEN <<"ETI">> ELSE <<>>)
        \o (IF Includes(slide, TDD) \/ Includes(slide, TestDriven)
            THEN <<"TDD">> ELSE <<>>)

(***************************************************************************)
(* The conversion of generate-preview.js: a chain of String.replace calls, *)
(* each with a regular expression.  A rule is named by a string;           *)
(* MatchEnd(rule, s, i) is the last position of the match of the rule that *)
(* starts at position i of s, 0 when the rule does not match there, and    *)
(* Replacement(rule, s, i, e) is the text that replaces the match i..e.    *)
(***************************************************************************)
\* the texts the conversion writes; the characters U+1F4F1, U+1F5BC and
\* U+FE0F are written by their code points
TweetPrefix ==
    <<"<", "T", "w", "e", "e", "t", " ", "i", "d", "=", "\"">>
TweetSuffix ==
    <<"\"", " ", "/", ">">>
TweetOpen ==
    <<"<", "d", "i", "v", " ", "c", "l", "a", "s", "s", "=", "\"", "t",
      "w", "e", "e", "t", "\"", ">", "U+1F4F1", " ", "T", "w", "e", "e",
      "t", ":", " ">>
DivClose ==
    <<"<", "/", "d", "i", "v", ">">>
ImgPrefix ==
    <<"<", "i", "m", "g", " ", "s", "r", "c", "=", "\"">>
ImgOpen ==
    <<"<", "d", "i", "v", " ", "s", "t", "y", "l", "e", "=", "\"", "t",
      "e", "x", "t", "-", "a", "l", "i", "g", "n", ":", " ", "c", "e", "n",
      "t", "e", "r", ";", "\"", ">", "<", "e", "m", ">", "U+1F5BC",
      "U+FE0F", " ", "I", "m", "a", "g", "e", ":", " ">>
ImgClose ==
    <<"<", "/", "e", "m", ">", "<", "/", "d", "i", "v", ">">>
StrongOpen ==
    <<"<", "s", "t", "r", "o", "n", "g", ">">>
StrongClose ==
    <<"<", "/", "s", "t", "r", "o", "n", "g", ">">>
EmOpen ==
    <<"<", "e", "m", ">">>
EmClose ==
    <<"<", "/", "e", "m", ">">>
LiOpen ==
    <<"<", "l", "i", ">">>
LiClose ==
    <<"<", "/", "l", "i", ">">>
UlOpen ==
    <<"<", "u", "l", ">">>
UlClose ==
    <<"<", "/", "u", "l", ">">>
PreOpen ==
    <<"<", "p", "r", "e", ">", "<", "c", "o", "d", "e", ">">>
PreClose ==
    <<"<", "/", "c", "o", "d", "e", ">", "<", "/", "p", "r", "e", ">">>
CodeOpen ==
    <<"<", "c", "o", "d", "e", ">">>
CodeClose ==
    <<"<", "/", "c", "o", "d", "e", ">">>
AOpen ==
    <<"<", "a", " ", "h", "r", "e", "f", "=", "\"">>
AMid ==
    <<"\"", ">">>
AClose ==
    <<"<", "/", "a", ">">>
ParaBreak ==
    <<"<", "/", "p", ">", "<", "p", ">">>
POpen ==
    <<"<", "p", ">">>
PClose ==
    <<"<", "/", "p", ">">>

\* \d and \w
Digits ==
    {"0", "1", "2", "3", "4", "5", "6", "7", "8", "9"}
WordChars ==
    {"a", "b", "c", "d", "e", "f", "g", "h", "i", "j", "k", "l", "m", "n",
     "o", "p", "q", "r", "s", "t", "u", "v", "w", "x", "y", "z", "A", "B",
     "C", "D", "E", "F", "G", "H", "I", "J", "K", "L", "M", "N", "O", "P",
     "Q", "R", "S", "T", "U", "V", "W", "X", "Y", "Z", "0", "1", "2", "3",
     "4", "5", "6", "7", "8", "9", "_"}

\* last position of the longest run of characters of S that starts at i
\* (i - 1 when the run is empty)
RunEnd(s, i, S) ==
    LET stops == { k \in i..Len(s) : s[k] \notin S }
    IN IF stops = {} THEN Len(s) ELSE Min(stops) - 1

\* last position of the longest run of characters other than c from i
RunEndNot(s, i, c) ==
    LET stops == { k \in i..Len(s) : s[k] = c }
    IN IF stops = {} THEN Len(s) ELSE Min(stops) - 1

Hashes(level) == Repeat(<<"#">>, level) \o <<" ">>

\* /^PREFIX(.+)$/m at i: the prefix at a line start and at least one more
\* character on the line
LineRuleEnd(s, prefix, i) ==
    IF /\ LineStart(s, i)
       /\ MatchAt(s, prefix, i)
       /\ LineEnd(s, i + Len(prefix)) >= i + Len(prefix)
    THEN LineEnd(s, i + Len(prefix))
    ELSE 0

\* /<Tweet id="(\d+)" \/>/
TweetEnd(s, i) ==
    IF MatchAt(s, TweetPrefix, i)
    THEN LET d == RunEnd(s, i + Len(TweetPrefix), Digits)
         IN IF d >= i + Len(TweetPrefix) /\ MatchAt(s, TweetSuffix, d + 1)
            THEN d + Len(TweetSuffix)
            ELSE 0
    ELSE 0

\* /<img src="([^"]+)"[^>]*>/ : the last position of the path
ImgPathEnd(s, i) == RunEndNot(s, i + Len(ImgPrefix), "\"")

ImgEnd(s, i) ==
    IF MatchAt(s, ImgPrefix, i)
    THEN LET p == ImgPathEnd(s, i)
             g == RunEndNot(s, p + 2, ">")
         IN IF p >= i + Len(ImgPrefix) /\ p + 1 <= Len(s) /\ g + 1 <= Len(s)
            THEN g + 1
            ELSE 0
    ELSE 0

\* /\*\*(.+?)\*\*/ : the nearest closing pair on the same line
BoldEnd(s, i) ==
    IF MatchAt(s, <<"*", "*">>, i)
    THEN LET closes == { j \in (i + 3)..(LineEnd(s, i + 2) - 1) :
                             MatchAt(s, <<"*", "*">>, j) }
         IN IF closes = {} THEN 0 ELSE Min(closes) + 1
    ELSE 0

\* /\*(.+?)\*/ : the nearest closing asterisk on the same line
ItalicEnd(s, i) ==
    IF MatchAt(s, <<"*">>, i)
    THEN LET closes == { j \in (i + 2)..LineEnd(s, i + 1) : s[j] = "*" }
         IN IF closes = {} THEN 0 ELSE Min(closes)
    ELSE 0

\* one round of (<li>.*<\/li>\n?) at p: up to the last </li> of the line
\* and the newline after it
LiRoundEnd(s, p) ==
    IF MatchAt(s, LiOpen, p)
    THEN LET closes == { q \in (p + Len(LiOpen))..LineEnd(s, p + Len(LiOpen)) :
                             MatchAt(s, LiClose, q) }
         IN IF closes = {} THEN 0
            ELSE LET e == Max(closes) + Len(LiClose) - 1
                 IN IF e + 1 <= Len(s) /\ s[e + 1] = "\n" THEN e + 1 ELSE e
    ELSE 0

\* /(<li>.*<\/li>\n?)+/ : as many rounds as follow one another
RECURSIVE UlEnd(_, _)
UlEnd(s, p) ==
    LET e == LiRoundEnd(s, p)
    IN IF e = 0 THEN 0
       ELSE LET more == UlEnd(s, e + 1)
            IN IF more = 0 THEN e ELSE more

\* /```(\w+)?\n([\s\S]*?)```/ : the first position of the body
FenceBodyStart(s, i) == RunEnd(s, i + Len(Fence), WordChars) + 2

FenceEnd(s, i) ==
    IF MatchAt(s, Fence, i)
    THEN LET b == FenceBodyStart(s, i)
         IN IF MatchAt(s, NL, b - 1) /\ IndexOf(s, Fence, b) # 0
            THEN IndexOf(s, Fence, b) + Len(Fence) - 1
            ELSE 0
    ELSE 0

\* /`([^`]+)`/
InlineCodeEnd(s, i) ==
    IF MatchAt(s, <<"bq">>, i)
    THEN LET r == RunEndNot(s, i + 1, "bq")
         IN IF r >= i + 1 /\ r + 1 <= Len(s) THEN r + 1 ELSE 0
    ELSE 0

\* /\[([^\]]+)\]\(([^)]+)\)/ : the last position of the link text
LinkTextEnd(s, i) == RunEndNot(s, i + 1, "]")

LinkEnd(s, i) ==
    IF MatchAt(s, <<"[">>, i)
    THEN LET a == LinkTextEnd(s, i)
             b == RunEndNot(s, a + 3, ")")
         IN IF /\ a >= i + 1
               /\ MatchAt(s, <<"]", "(">>, a + 1)
               /\ b >= a + 3
               /\ b + 1 <= Len(s)
            THEN b + 1
            ELSE 0
    ELSE 0

MatchEnd(rule, s, i) ==
    CASE rule = "tweet"  -> TweetEnd(s, i)
      [] rule = "img"    -> ImgEnd(s, i)
      [] rule = "h3"     -> LineRuleEnd(s, Hashes(3), i)
      [] rule = "h2"     -> LineRuleEnd(s, Hashes(2), i)
      [] rule = "h1"     -> LineRuleEnd(s, Hashes(1), i)
      [] rule = "bold"   -> BoldEnd(s, i)
      [] rule = "italic" -> ItalicEnd(s, i)
      [] rule = "li"     -> LineRuleEnd(s, <<"-", " ">>, i)
      [] rule = "ul"     -> UlEnd(s, i)
      [] rule = "fence"  -> FenceEnd(s, i)
      [] rule = "code"   -> InlineCodeEnd(s, i)
      [] rule = "link"   -> LinkEnd(s, i)
      [] rule = "para"   -> IF MatchAt(s, NL \o NL, i) THEN i + 1 ELSE 0

HeadingOpen(level) == <<"<", "h">> \o <<<<"1", "2", "3">>[level]>> \o <<">">>

HeadingClose(level) ==
    <<"<", "/", "h">> \o <<<<"1", "2", "3">>[level]>> \o <<">">>

\* a heading element that keeps the whole match, '#' marks included
HeadingElementWholeMatch(level, s, i, e) ==
    HeadingOpen(level) \o SubSeq(s, i, e) \o HeadingClose(level)

HeadingElement(level, s, i, e) ==
    HeadingOpen(level) \o SubSeq(s, i + level + 1, e) \o HeadingClose(level)

Replacement(rule, s, i, e) ==
    CASE rule = "tweet"  ->
             TweetOpen
                 \o SubSeq(s, i + Len(TweetPrefix), e - Len(TweetSuffix))
                 \o DivClose
      [] rule = "img"    ->
             ImgOpen \o SubSeq(s, i + Len(ImgPrefix), ImgPathEnd(s, i))
                 \o ImgClose
      [] rule = "h3"     -> HeadingElement(3, s, i, e)
      [] rule = "h2"     -> HeadingElement(2, s, i, e)
      [] rule = "h1"     -> HeadingElement(1, s, i, e)
      [] rule = "bold"   ->
             StrongOpen \o SubSeq(s, i + 2, e - 2) \o StrongClose
      [] rule = "italic" -> EmOpen \o SubSeq(s, i + 1, e - 1) \o EmClose
      [] rule = "li"     -> LiOpen \o SubSeq(s, i + 2, e) \o LiClose
      [] rule = "ul"     -> UlOpen \o SubSeq(s, i, e) \o UlClose
      [] rule = "fence"  ->
             PreOpen \o SubSeq(s, FenceBodyStart(s, i), e - Len(Fence))
                 \o PreClose
      [] rule = "code"   -> CodeOpen \o SubSeq(s, i + 1, e - 1) \o CodeClose
      [] rule = "link"   ->
             AOpen \o SubSeq(s, LinkTextEnd(s, i) + 3, e - 1) \o AMid
                 \o SubSeq(s, i + 1, LinkTextEnd(s, i)) \o AClose
      [] rule = "para"   -> ParaBreak

\* String.prototype.replace with a /g expression: the matches are taken
\* from left to right, each search starting after the previous match
RECURSIVE ReplaceFrom(_, _, _)
ReplaceFrom(rule, s, from) ==
    LET starts == { i \in from..Len(s) : MatchEnd(rule, s, i) > 0 }
    IN IF starts = {} THEN SubSeq(s, from, Len(s))
       ELSE LET i == Min(starts)
                e == MatchEnd(rule, s, i)
            IN SubSeq(s, from, i - 1) \o Replacement(rule, s, i, e)
                   \o ReplaceFrom(rule, s, e + 1)

ReplaceAll(rule, s) == ReplaceFrom(rule, s, 1)

\* content.replace(/^---[\s\S]*?---\n/, ''): a text that starts with '---'
\* loses everything up to the first '---\n' that follows
RemoveFrontmatter(content) ==
    IF MatchAt(content, Dashes, 1)
           /\ IndexOf(content, Delim, Len(Dashes) + 1) # 0
    THEN SubSeq(content,
                IndexOf(content, Delim, Len(Dashes) + 1) + Len(Delim),
                Len(content))
    ELSE content

\* a conversion that wraps the lists before it makes the list items
PipelineUlFirst ==
    <<"tweet", "img", "h3", "h2", "h1", "bold", "italic", "ul", "li",
      "fence", "code", "link", "para">>

\* the rules of the conversion, in the order of the replace calls
Pipeline ==
    <<"tweet", "img", "h3", "h2", "h1", "bold", "italic", "li", "ul",
      "fence", "code", "link", "para">>

RECURSIVE ApplyRules(_, _)
ApplyRules(rules, s) ==
    IF rules = <<>> THEN s
    ELSE ApplyRules(Tail(rules), ReplaceAll(Head(rules), s))

\* the converted content of a slide
Convert(slide) ==
    POpen \o ApplyRules(Pipeline, RemoveFrontmatter(slide)) \o PClose

(***************************************************************************)
(* State.                                                                  *)
(*   script      the script or test that runs                              *)
(*   pc          its position                                              *)
(*   slides      the text of slides.md                                     *)
(*   slideArray  the slides (sections) after the split                     *)
(*   index       0-based index of the forEach callback to run next         *)
(*   total       the total slide count the script reports (-1: none yet)   *)
(*   report      what the script has written so far, one record per slide  *)
(*   summary     the summary generate-preview prints, <<>> before it does  *)
(*   failure     the expectation that threw, <<>> while none has           *)
(*   browser     the browser of the screenshot script: "none", "open" or   *)
(*               "closed"                                                  *)
(*   visits      the slide pages the screenshot script has navigated to    *)
(*   shots       the pages whose screenshot file has been written          *)
(*   dirExists   whether the directory slide-screenshots exists            *)
(* The screenshot script reads no deck: its index is the loop variable i,  *)
(* its total is totalSlides and its report is what it prints.              *)
(***************************************************************************)
Init ==
    /\ \/ script \in Scripts /\ slides \in Inputs /\ dirExists = FALSE
       \/ script = "capture" /\ slides = <<>> /\ dirExists \in BOOLEAN
    /\ pc = "start"
    /\ slideArray = <<>>
    /\ index = 0
    /\ total = -1
    /\ report = <<>>
    /\ summary = <<>>
    /\ failure = <<>>
    /\ browser = "none"
    /\ visits = <<>>
    /\ shots = {}

(***************************************************************************)
(* verify-slides.js                                                        *)
(***************************************************************************)
VerifySplit ==
    /\ script = "verify" /\ pc = "start"
    /\ slideArray' = Split(slides, Delim)
    /\ total' = Len(slideArray')
    /\ index' = 0
    /\ pc' = "loop"
    /\ UNCHANGED captureVars
    /\ UNCHANGED <<script, slides, report, summary, failure>>

\* a callback that prints the 0-based index as the slide number
VerifySlideZeroBased ==
    /\ script = "verify" /\ pc = "loop"
    /\ index < Len(slideArray)
    /\ LET slide == slideArray[index + 1]
       IN report' = Append(report,
              [number |-> index,
               title  |-> Title(slide),
               lines  |-> ContentLines(slide),
               issues |-> VerifyIssues(slide),
               checks |-> VerifyChecks(slide, index)])
    /\ index' = index + 1
    /\ UNCHANGED captureVars
    /\ UNCHANGED <<script, pc, slides, slideArray, total, summary, failure>>

VerifySlide ==
    /\ script = "verify" /\ pc = "loop"
    /\ index < Len(slideArray)
    /\ LET slide == slideArray[index + 1]
       IN report' = Append(report,
              [number |-> index + 1,
               title  |-> Title(slide),
               lines  |-> ContentLines(slide),
               issues |-> VerifyIssues(slide),
               checks |-> VerifyChecks(slide, index)])
    /\ index' = index + 1
    /\ UNCHANGED captureVars
    /\ UNCHANGED <<script, pc, slides, slideArray, total, summary, failure>>

\* an end of the loop that also comes after the first slide with an issue
VerifyDoneAtIssue ==
    /\ script = "verify" /\ pc = "loop"
    /\ \/ index = Len(slideArray)
       \/ index >= 1 /\ report[index].issues # <<>>
    /\ pc' = "done"
    /\ UNCHANGED captureVars
    /\ UNCHANGED <<script, slides, slideArray, index, total, report, summary,
                   failure>>

VerifyDone ==
    /\ script = "verify" /\ pc = "loop"
    /\ index = Len(slideArray)
    /\ pc' = "done"
    /\ UNCHANGED captureVars
    /\ UNCHANGED <<script, slides, slideArray, index, total, report, summary,
                   failure>>

(***************************************************************************)
(* generate-preview.js                                                     *)
(***************************************************************************)
\* a filter that keeps every element
KeepAll(arr) == arr

\* arr.filter(s => s.trim())
NonBlank(arr) == SelectSeq(arr, LAMBDA s : Truthy(Trim(s)))

\* slides.split('---\n').filter(s => s.trim())
PreviewSlideArray(text) == NonBlank(Split(text, Delim))

PreviewSplit ==
    /\ script = "preview" /\ pc = "start"
    /\ slideArray' = PreviewSlideArray(slides)
    /\ total' = Len(slideArray')
    /\ index' = 0
    /\ pc' = "loop"
    /\ UNCHANGED captureVars
    /\ UNCHANGED <<script, slides, report, summary, failure>>

\* a callback that writes the converted content back into the slide array
PreviewSlideInPlace ==
    /\ script = "preview" /\ pc = "loop"
    /\ index < Len(slideArray)
    /\ LET slide == slideArray[index + 1]
           lines == ContentLines(slide)
           hasLongContent == lines > PreviewLongLimit
       IN /\ report' = IF ~Truthy(Trim(slide)) THEN report
                       ELSE Append(report,
                                [number  |-> index + 1,
                                 warning |-> hasLongContent,
                                 lines   |-> lines,
                                 content |-> Convert(slide)])
          /\ slideArray' = [slideArray EXCEPT ![index + 1] = Convert(slide)]
    /\ index' = index + 1
    /\ UNCHANGED captureVars
    /\ UNCHANGED <<script, pc, slides, total, summary, failure>>

\* one call of the forEach callback: the block it appends to the document
PreviewSlide ==
    /\ script = "preview" /\ pc = "loop"
    /\ index < Len(slideArray)
    /\ LET slide == slideArray[index + 1]
           lines == ContentLines(slide)
           hasLongContent == lines > PreviewLongLimit
       IN report' = IF ~Truthy(Trim(slide)) THEN report
                    ELSE Append(report,
                             [number  |-> index + 1,
                              warning |-> hasLongContent,
                              lines   |-> lines,
                              content |-> Convert(slide)])
    /\ index' = index + 1
    /\ UNCHANGED captureVars
    /\ UNCHANGED <<script, pc, slides, slideArray, total, summary, failure>>

\* the summary object of a slide array
SummaryOf(arr) ==
    [totalSlides      |-> Len(arr),
     slidesWithCode   |->
         Len(SelectSeq(arr, LAMBDA s : Includes(s, Fence))),
     slidesWithTweets |->
         Len(SelectSeq(arr, LAMBDA s : Includes(s, TweetId))),
     slidesWithImages |->
         Len(SelectSeq(arr,
                 LAMBDA s : Includes(s, ImgTag) \/ Includes(s, ImgMd))),
     longSlides       |->
         Len(SelectSeq(arr,
                 LAMBDA s : ContentLines(s) > PreviewLongLimit))]

PreviewSummary ==
    /\ script = "preview" /\ pc = "loop"
    /\ index = Len(slideArray)
    /\ summary' = SummaryOf(slideArray)
    /\ pc' = "done"
    /\ UNCHANGED captureVars
    /\ UNCHANGED <<script, slides, slideArray, index, total, report, failure>>

(***************************************************************************)
(* tests/visual.test.js                                                    *)
(***************************************************************************)
\* 'should not have overly long slides'
VisualLongSplit ==
    /\ script = "visualLong" /\ pc = "start"
    /\ slideArray' = Split(slides, Delim)
    /\ index' = 0
    /\ pc' = "loop"
    /\ UNCHANGED captureVars
    /\ UNCHANGED <<script, slides, total, report, summary, failure>>

VisualLongSlide ==
    /\ script = "visualLong" /\ pc = "loop"
    /\ index < Len(slideArray)
    /\ LET contentLines == ContentLines(slideArray[index + 1])
       IN IF contentLines <= VisualMaxLines
          THEN /\ index' = index + 1
               /\ UNCHANGED <<pc, failure>>
          ELSE /\ failure' = [rule |-> "too long", number |-> index + 1]
               /\ pc' = "failed"
               /\ UNCHANGED index
    /\ UNCHANGED captureVars
    /\ UNCHANGED <<script, slides, slideArray, total, report, summary>>

VisualLongDone ==
    /\ script = "visualLong" /\ pc = "loop"
    /\ index = Len(slideArray)
    /\ pc' = "done"
    /\ UNCHANGED captureVars
    /\ UNCHANGED <<script, slides, slideArray, index, total, report, summary,
                   failure>>

\* the words 'should have consistent formatting' looks for, in the order
\* of its expectations
VisualForbidden == <<Undefined, ObjectOpen, Null>>

FirstForbidden(text, words) ==
    IF \E k \in 1..Len(words) : Includes(text, words[k])
    THEN Min({ k \in 1..Len(words) : Includes(text, words[k]) })
    ELSE 0

\* 'should have consistent formatting'
VisualFormat ==
    /\ script = "visualFormat" /\ pc = "start"
    /\ LET k == FirstForbidden(slides, VisualForbidden)
       IN IF k = 0
          THEN /\ pc' = "done"
               /\ UNCHANGED failure
          ELSE /\ failure' = [rule |-> "forbidden", word |-> VisualForbidden[k]]
               /\ pc' = "failed"
    /\ UNCHANGED captureVars
    /\ UNCHANGED <<script, slides, slideArray, index, total, report, summary>>

\* /KEY\s*VALUE/ somewhere in the text
KeyValueIn(text, key, value) ==
    \E i \in 1..Len(text) :
        /\ MatchAt(text, key, i)
        /\ MatchAt(text, value,
                   RunEnd(text, i + Len(key), {" ", "\n", "\t", "\r"}) + 1)

\* /layout:\s*center|class:\s*text-center/
MatchesCentered(text) ==
    \/ KeyValueIn(text, LayoutKey, Center)
    \/ KeyValueIn(text, ClassKey, TextCenter)

\* 'should use proper slide layouts'
VisualLayoutsSplit ==
    /\ script = "visualLayouts" /\ pc = "start"
    /\ slideArray' = Split(slides, Dashes)
    /\ pc' = "check"
    /\ UNCHANGED captureVars
    /\ UNCHANGED <<script, slides, index, total, report, summary, failure>>

VisualLayoutsCheck ==
    /\ script = "visualLayouts" /\ pc = "check"
    /\ LET lastSlide == slideArray[Len(slideArray)]
       IN IF ~Includes(slideArray[1], LayoutCover)
          THEN /\ failure' = [rule |-> "layout", number |-> 1]
               /\ pc' = "failed"
          ELSE IF ~MatchesCentered(lastSlide)
          THEN /\ failure' = [rule |-> "layout", number |-> Len(slideArray)]
               /\ pc' = "failed"
          ELSE /\ pc' = "done"
               /\ UNCHANGED failure
    /\ UNCHANGED captureVars
    /\ UNCHANGED <<script, slides, slideArray, index, total, report, summary>>

\* a count whose pattern is not anchored at the start of a line
HeadingCountUnanchored(slide, level) ==
    Cardinality({ i \in 1..Len(slide) :
                      MatchAt(slide, Repeat(<<"#">>, level) \o <<" ">>, i) })

\* (slide.match(/^#...# /gm) || []).length for a run of `level` hashes
HeadingCount(slide, level) ==
    Cardinality({ i \in 1..Len(slide) :
                      /\ LineStart(slide, i)
                      /\ MatchAt(slide, Repeat(<<"#">>, level) \o <<" ">>, i) })

\* 'should have properly sized headings'
VisualHeadingsSplit ==
    /\ script = "visualHeadings" /\ pc = "start"
    /\ slideArray' = Split(slides, Delim)
    /\ index' = 0
    /\ pc' = "loop"
    /\ UNCHANGED captureVars
    /\ UNCHANGED <<script, slides, total, report, summary, failure>>

VisualHeadingsSlide ==
    /\ script = "visualHeadings" /\ pc = "loop"
    /\ index < Len(slideArray)
    /\ LET slide == slideArray[index + 1]
           h1Count == HeadingCount(slide, 1)
           h2Count == HeadingCount(slide, 2)
       IN IF h1Count > MaxH1PerSlide
          THEN /\ failure' = [rule |-> "h1", number |-> index + 1]
               /\ pc' = "failed"
               /\ UNCHANGED index
          ELSE IF h2Count > MaxH2PerSlide
          THEN /\ failure' = [rule |-> "h2", number |-> index + 1]
               /\ pc' = "failed"
               /\ UNCHANGED index
          ELSE /\ index' = index + 1
               /\ UNCHANGED <<pc, failure>>
    /\ UNCHANGED captureVars
    /\ UNCHANGED <<script, slides, slideArray, total, report, summary>>

VisualHeadingsDone ==
    /\ script = "visualHeadings" /\ pc = "loop"
    /\ index = Len(slideArray)
    /\ pc' = "done"
    /\ UNCHANGED captureVars
    /\ UNCHANGED <<script, slides, slideArray, index, total, report, summary,
                   failure>>

(***************************************************************************)
(* tests/slides.test.js                                                    *)
(***************************************************************************)
\* slides.split('---').map(s => s.trim())
Sections(text) ==
    LET parts == Split(text, Dashes)
    IN [k \in 1..Len(parts) |-> Trim(parts[k])]

\* a search that returns the last section holding the marker
FindLastIndex(sections, marker) ==
    IF \E k \in 1..Len(sections) : Includes(sections[k], marker)
    THEN CHOOSE k \in 0..(Len(sections) - 1) :
             /\ Includes(sections[k + 1], marker)
             /\ \A j \in (k + 2)..Len(sections) : ~Includes(sections[j], marker)
    ELSE -1

\* sections.findIndex(s => s.includes(marker)), 0-based, -1 when none
FindIndex(sections, marker) ==
    IF \E k \in 1..Len(sections) : Includes(sections[k], marker)
    THEN Min({ k \in 1..Len(sections) : Includes(sections[k], marker) }) - 1
    ELSE -1

\* the markers of 'should follow narrative arc', in required order
ArcMarkers == <<MaxGhenis, VegasAirport, Opus4, TurnEverything>>

\* the first expectation of the arc that does not hold: k when
\* index(k) < index(k+1) fails, 0 when all hold
FirstArcFailure(found) ==
    IF \E k \in 1..(Len(found) - 1) : ~(found[k] < found[k + 1])
    THEN Min({ k \in 1..(Len(found) - 1) : ~(found[k] < found[k + 1]) })
    ELSE 0

\* 'should follow narrative arc'
NarrativeArcSplit ==
    /\ script = "narrativeArc" /\ pc = "start"
    /\ slideArray' = Sections(slides)
    /\ pc' = "check"
    /\ UNCHANGED captureVars
    /\ UNCHANGED <<script, slides, index, total, report, summary, failure>>

NarrativeArcCheck ==
    /\ script = "narrativeArc" /\ pc = "check"
    /\ LET found == [k \in 1..Len(ArcMarkers) |->
                         FindIndex(slideArray, ArcMarkers[k])]
           k == FirstArcFailure(found)
       IN /\ report' = found
          /\ IF k = 0
             THEN /\ pc' = "done"
                  /\ UNCHANGED failure
             ELSE /\ failure' = [rule |-> "order", first |-> k]
                  /\ pc' = "failed"
    /\ UNCHANGED captureVars
    /\ UNCHANGED <<script, slides, slideArray, index, total, summary>>

\* 'should have balanced content distribution'
BalancedSplit ==
    /\ script = "balanced" /\ pc = "start"
    /\ slideArray' = Split(slides, Dashes)
    /\ index' = 0
    /\ pc' = "loop"
    /\ UNCHANGED captureVars
    /\ UNCHANGED <<script, slides, total, report, summary, failure>>

BalancedSection ==
    /\ script = "balanced" /\ pc = "loop"
    /\ index < Len(slideArray)
    /\ LET lines == Len(Split(slideArray[index + 1], NL))
       IN IF lines <= BalancedMaxLines
          THEN /\ index' = index + 1
               /\ UNCHANGED <<pc, failure>>
          ELSE /\ failure' = [rule |-> "too long", number |-> index + 1]
               /\ pc' = "failed"
               /\ UNCHANGED index
    /\ UNCHANGED captureVars
    /\ UNCHANGED <<script, slides, slideArray, total, report, summary>>

BalancedDone ==
    /\ script = "balanced" /\ pc = "loop"
    /\ index = Len(slideArray)
    /\ pc' = "done"
    /\ UNCHANGED captureVars
    /\ UNCHANGED <<script, slides, slideArray, index, total, report, summary,
                   failure>>

(***************************************************************************)
(* captureSlides: the screenshot script.  Every awaited call may reject;   *)
(* outside the try block of the loop a rejection ends captureSlides, and   *)
(* the .catch of the caller prints it.                                     *)
(***************************************************************************)
\* the last page the loop asks for
PageLimit == 20

\* the count the script uses when the page has no .slidev-page element
DefaultTotal == 20

Log(kind, number) == Append(report, [kind |-> kind, number |-> number])

\* an awaited call outside the try block rejects
Rejects(step) ==
    /\ pc' = "failed"
    /\ failure' = [rule |-> "rejected", step |-> step]

\* a catch block that logs and goes on with the next page
LogAndContinue ==
    /\ report' = Log("could not capture", index)
    /\ index' = index + 1
    /\ pc' = "loop"

\* the catch block of the loop: log, then break
LogAndBreak ==
    /\ report' = Log("could not capture", index)
    /\ index' = index
    /\ pc' = "close"

CaptureLaunch ==
    /\ script = "capture" /\ pc = "start"
    /\ \/ browser' = "open" /\ pc' = "newPage" /\ failure' = failure
       \/ browser' = browser /\ Rejects("launch")
    /\ UNCHANGED <<script, slides, slideArray, index, total, report, summary,
                   visits, shots, dirExists>>

CaptureNewPage ==
    /\ script = "capture" /\ pc = "newPage"
    /\ \/ pc' = "viewport" /\ failure' = failure
       \/ Rejects("newPage")
    /\ UNCHANGED <<script, slides, slideArray, index, total, report, summary,
                   browser, visits, shots, dirExists>>

CaptureSetViewport ==
    /\ script = "capture" /\ pc = "viewport"
    /\ \/ pc' = "open" /\ failure' = failure
       \/ Rejects("setViewportSize")
    /\ UNCHANGED <<script, slides, slideArray, index, total, report, summary,
                   browser, visits, shots, dirExists>>

\* page.goto of the deck and the wait that follows it
CaptureOpenDeck ==
    /\ script = "capture" /\ pc = "open"
    /\ \/ pc' = "mkdir" /\ failure' = failure
       \/ Rejects("goto")
    /\ UNCHANGED <<script, slides, slideArray, index, total, report, summary,
                   browser, visits, shots, dirExists>>

CaptureMkdir ==
    /\ script = "capture" /\ pc = "mkdir"
    /\ \/ /\ dirExists' = TRUE
          /\ pc' = "evaluate" /\ failure' = failure
       \/ /\ ~dirExists
          /\ dirExists' = dirExists
          /\ Rejects("mkdirSync")
    /\ UNCHANGED <<script, slides, slideArray, index, total, report, summary,
                   browser, visits, shots>>

\* totalSlides, its log line, and the start of the loop (i = 1)
CaptureEvaluate ==
    /\ script = "capture" /\ pc = "evaluate"
    /\ \/ \E found \in 0..MaxFound :
              /\ total' = IF found = 0 THEN DefaultTotal ELSE found
              /\ report' = Log("found", total')
              /\ index' = 1
              /\ pc' = "loop" /\ failure' = failure
       \/ /\ Rejects("evaluate")
          /\ UNCHANGED <<total, report, index>>
    /\ UNCHANGED <<script, slides, slideArray, summary, browser, visits,
                   shots, dirExists>>

\* page.goto of page i and the wait that follows it
CaptureGoto ==
    /\ script = "capture" /\ pc = "loop"
    /\ index <= PageLimit
    /\ visits' = Append(visits, index)
    /\ \/ pc' = "shot" /\ UNCHANGED <<index, report>>
       \/ LogAndBreak
    /\ UNCHANGED <<script, slides, slideArray, total, summary, failure,
                   browser, shots, dirExists>>

\* page.screenshot of page i and its log line
CaptureScreenshot ==
    /\ script = "capture" /\ pc = "shot"
    /\ \/ /\ shots' = shots \cup {index}
          /\ report' = Log("captured", index)
          /\ index' = index + 1
          /\ pc' = "loop"
       \/ /\ shots' = shots
          /\ LogAndBreak
    /\ UNCHANGED <<script, slides, slideArray, total, summary, failure,
                   browser, visits, dirExists>>

CaptureLoopEnd ==
    /\ script = "capture" /\ pc = "loop"
    /\ index > PageLimit
    /\ pc' = "close"
    /\ UNCHANGED <<script, slides, slideArray, index, total, report, summary,
                   failure, browser, visits, shots, dirExists>>

CaptureClose ==
    /\ script = "capture" /\ pc = "close"
    /\ \/ /\ browser' = "closed"
          /\ report' = Log("saved", 0)
          /\ pc' = "done" /\ failure' = failure
       \/ /\ Rejects("close")
          /\ UNCHANGED <<browser, report>>
    /\ UNCHANGED <<script, slides, slideArray, index, total, summary, visits,
                   shots, dirExists>>

Next ==
    \/ VerifySplit
    \/ VerifySlide
    \/ VerifyDone
    \/ PreviewSplit
    \/ PreviewSlide
    \/ PreviewSummary
    \/ VisualLongSplit
    \/ VisualLongSlide
    \/ VisualLongDone
    \/ VisualFormat
    \/ VisualLayoutsSplit
    \/ VisualLayoutsCheck
    \/ VisualHeadingsSplit
    \/ VisualHeadingsSlide
    \/ VisualHeadingsDone
    \/ NarrativeArcSplit
    \/ NarrativeArcCheck
    \/ BalancedSplit
    \/ BalancedSection
    \/ BalancedDone
    \/ CaptureLaunch
    \/ CaptureNewPage
    \/ CaptureSetViewport
    \/ CaptureOpenDeck
    \/ CaptureMkdir
    \/ CaptureEvaluate
    \/ CaptureGoto
    \/ CaptureScreenshot
    \/ CaptureLoopEnd
    \/ CaptureClose

Spec == Init /\ [][Next]_vars

(***************************************************************************)
(* Properties.                                                             *)
(***************************************************************************)
Split4 == {"verify", "preview", "visualLong", "visualHeadings"}

Started == pc # "start"

Finished == pc \in {"done", "failed"}

\* the positions of the delimiter in a text, ascending; two occurrences of
\* '---\n' never overlap
RECURSIVE Ascending(_)
Ascending(S) == IF S = {} THEN <<>> ELSE <<Min(S)>> \o Ascending(S \ {Min(S)})

DelimPositions(text) ==
    Ascending({ i \in 1..Len(text) : MatchAt(text, Delim, i) })

\* the delimiter-separated segments of a text, from the delimiter positions
Segments(text) ==
    LET pos == DelimPositions(text)
        n == Len(pos)
    IN [k \in 1..(n + 1) |->
            SubSeq(text,
                   IF k = 1 THEN 1 ELSE pos[k - 1] + Len(Delim),
                   IF k = n + 1 THEN Len(text) ELSE pos[k] - 1)]

Blank(s) == \A i \in 1..Len(s) : IsWhiteSpace(s[i])

\* C1: after the split on '---\n' no slide contains the delimiter, in
\* verify-slides, generate-preview and the visual tests (and in the tests
\* that split on '---').
C1_NoDelimiterInSlide ==
    Started => \A k \in 1..Len(slideArray) : ~Includes(slideArray[k], Delim)

C1_Witness ==
    /\ script = "verify" /\ pc = "loop"
    /\ Len(slideArray) = 3
    /\ slideArray[1] = <<"-">>

\* C2 as stated: every script that splits on '---\n' holds exactly one
\* slide per delimiter-separated segment, blank segments included, so the
\* slide count is the number of delimiters plus one.
C2_OneSlidePerSegment ==
    (script \in Split4 /\ Started) =>
        /\ slideArray = Segments(slides)
        /\ Len(slideArray) = Len(DelimPositions(slides)) + 1

\* C2 amended: verify-slides and the visual tests hold one slide per
\* segment, in order, blank ones included (count = delimiters + 1);
\* generate-preview holds, in order, exactly the segments that are not
\* empty or whitespace-only.
C2_SegmentsKept ==
    /\ (script \in Split4 \ {"preview"} /\ Started) =>
           /\ slideArray = Segments(slides)
           /\ Len(slideArray) = Len(DelimPositions(slides)) + 1
    /\ (script = "preview" /\ Started) =>
           slideArray = SelectSeq(Segments(slides), LAMBDA s : ~Blank(s))

C2_Witness ==
    /\ script = "preview" /\ pc = "loop"
    /\ Len(slideArray) = 2
    /\ Len(Segments(slides)) = 3

\* C3: the forEach index runs over 0..n-1 without gaps, and the slide
\* numbers written by verify-slides and by generate-preview are 1..n in
\* order, n being the total the script reports.
C3_ContiguousNumbers ==
    (script \in {"verify", "preview"} /\ Started) =>
        /\ index \in 0..Len(slideArray)
        /\ total = Len(slideArray)
        /\ Len(report) = index
        /\ \A k \in 1..Len(report) : report[k].number = k
        /\ pc = "done" => Len(report) = total

C3_Witness ==
    /\ script = "preview" /\ pc = "done"
    /\ Len(report) = 2
    /\ Len(Segments(slides)) > Len(slideArray)

\* C4 as stated: joining the slides with the delimiter gives back the text
\* that was read, in verify-slides and in generate-preview.
C4_RoundTrip ==
    (script \in {"verify", "preview"} /\ Started) =>
        Join(slideArray, Delim) = slides

\* C4 amended: joining the slides of verify-slides (and of the visual
\* tests) with the delimiter gives back the text exactly; for
\* generate-preview it does so when no segment of the text is empty or
\* whitespace-only, and otherwise gives the text without those segments.
C4_RoundTripUnfiltered ==
    /\ (script \in Split4 \ {"preview"} /\ Started) =>
           Join(slideArray, Delim) = slides
    /\ (script = "preview" /\ Started) =>
           /\ (\A k \in 1..Len(Segments(slides)) : ~Blank(Segments(slides)[k]))
                  => Join(slideArray, Delim) = slides
           /\ Join(slideArray, Delim) =
                  Join(SelectSeq(Segments(slides), LAMBDA s : ~Blank(s)), Delim)

C4_Witness ==
    /\ script = "verify" /\ pc = "done"
    /\ Len(slideArray) = 3
    /\ slideArray[3] = <<>>
    /\ slideArray[1] # <<>>

\* the 0-based index of the first '---' section of the text that holds the
\* marker, -1 when none does
FirstSectionWith(marker) ==
    LET parts == Split(slides, Dashes)
        hits == { k \in 1..Len(parts) : Includes(parts[k], marker) }
    IN IF hits = {} THEN -1 ELSE Min(hits) - 1

AllMarkersFound == \A k \in 1..Len(ArcMarkers) : FirstSectionWith(ArcMarkers[k]) >= 0

C6_MissingMarkerFails ==
    (script = "narrativeArc" /\ Finished /\ ~AllMarkersFound) => pc = "failed"

\* C7: with the limit at 30, a slide is flagged exactly when it has more
\* than 30 non-blank lines, in verify-slides, in generate-preview, and in
\* the two tests.
C7_LengthRule ==
    /\ script = "verify" =>
           \A k \in 1..Len(report) :
               ("too long" \in { report[k].issues[j] :
                                     j \in 1..Len(report[k].issues) })
                   <=> ContentLines(slideArray[k]) > 30
    /\ script = "preview" =>
           \A k \in 1..Len(report) :
               report[k].warning <=> ContentLines(slideArray[k]) > 30
    /\ (script \in {"visualLong", "balanced"} /\ pc = "loop") =>
           \A k \in 1..index : ContentLines(slideArray[k]) <= 30
    /\ (script \in {"visualLong", "balanced"} /\ pc = "failed") =>
           ContentLines(slideArray[index + 1]) > 30

\* C8: the renderer puts the 'too long' banner on a slide exactly when the
\* length validation ('should not have overly long slides') rejects it.
C8_SameThreshold ==
    script = "preview" =>
        \A k \in 1..Len(report) :
            report[k].warning <=>
                ContentLines(slideArray[report[k].number]) > VisualMaxLines

ContainsForbidden(text) ==
    Includes(text, Undefined) \/ Includes(text, Null) \/ Includes(text, ObjectOpen)

\* C9: a deck that holds 'undefined', 'null' or '[object' gets a
\* forbidden-substring finding and a deck that holds none gets no such
\* finding, from the whole-text test and from verify-slides alike.
C9_ForbiddenFinding ==
    /\ (script = "visualFormat" /\ Finished) =>
           ((pc = "failed" /\ failure.rule = "forbidden")
                <=> ContainsForbidden(slides))
    /\ (script = "verify" /\ pc = "done") =>
           ((\E k \in 1..Len(report) : \E j \in 1..Len(report[k].issues) :
                 report[k].issues[j] \in {"undefined", "[object"})
                <=> ContainsForbidden(slides))

\* the lines of a slide that start with exactly `level` hashes and a space
HeadingLines(slide, level) ==
    SelectSeq(Split(slide, NL),
              LAMBDA l : /\ Len(l) > level
                         /\ \A j \in 1..level : l[j] = "#"
                         /\ l[level + 1] = " ")

TooManyHeadings(slide) ==
    \/ Len(HeadingLines(slide, 1)) > 1
    \/ Len(HeadingLines(slide, 2)) > 4

\* C10: the heading test rejects a slide exactly when it has more than 1
\* line starting with one hash and a space, or more than 4 lines starting
\* with two hashes and a space: every slide it has passed is within the
\* limits and the slide it fails on is not.
C10_HeadingRule ==
    script = "visualHeadings" =>
        /\ pc \in {"loop", "done"} =>
               \A k \in 1..index : ~TooManyHeadings(slideArray[k])
        /\ pc = "failed" =>
               /\ TooManyHeadings(slideArray[index + 1])
               /\ failure.number = index + 1
               /\ \A k \in 1..index : ~TooManyHeadings(slideArray[k])
        /\ pc = "done" => index = Len(slideArray)

C10_Witness ==
    /\ script = "visualHeadings" /\ pc = "failed"
    /\ index = 1
    /\ Len(HeadingLines(slideArray[1], 2)) = 1
    /\ Len(HeadingLines(slideArray[2], 2)) = 5
    /\ Len(HeadingLines(slideArray[2], 1)) = 1

\* the text opens with a delimiter-fenced block that declares the value
OpensWithFenced(text, value) ==
    /\ MatchAt(text, Delim, 1)
    /\ IndexOf(text, Delim, Len(Delim) + 1) # 0
    /\ Includes(SubSeq(text, Len(Delim) + 1,
                       IndexOf(text, Delim, Len(Delim) + 1) - 1), value)

\* the last two delimiters of the text fence a block that declares both
\* values
ClosesWithFenced(text, v1, v2) ==
    LET pos == DelimPositions(text)
        n == Len(pos)
    IN /\ n >= 2
       /\ Includes(SubSeq(text, pos[n - 1] + Len(Delim), pos[n] - 1), v1)
       /\ Includes(SubSeq(text, pos[n - 1] + Len(Delim), pos[n] - 1), v2)

\* C11: on a deck that opens with a fenced metadata block declaring
\* 'layout: cover' and whose closing slide is introduced by a fenced block
\* declaring 'layout: center' and 'class: text-center', the layout test
\* finds 'layout: cover' in the first '---' segment and the centered
\* layout in the last one, so it passes.
C11_LayoutCheck ==
    (/\ script = "visualLayouts" /\ Finished
     /\ OpensWithFenced(slides, LayoutCover)
     /\ ClosesWithFenced(slides, LayoutKey \o <<" ">> \o Center,
                         ClassKey \o <<" ">> \o TextCenter))
        => /\ pc = "done"
           /\ Includes(slideArray[1], LayoutCover)
           /\ MatchesCentered(slideArray[Len(slideArray)])

\* the number of places where a pattern occurs in a text
Count(text, pattern) ==
    Cardinality({ i \in 1..Len(text) : MatchAt(text, pattern, i) })

CountBefore(text, pattern, p) ==
    Cardinality({ i \in 1..(p - 1) : MatchAt(text, pattern, i) })

\* a line '- ' followed by at least one character
IsListLine(l) == Len(l) >= 3 /\ l[1] = "-" /\ l[2] = " "

ListLines(slide) == SelectSeq(Split(slide, NL), IsListLine)

\* the number of maximal runs of consecutive list lines of a slide
ListRuns(slide) ==
    LET ls == Split(slide, NL)
    IN Cardinality({ k \in 1..Len(ls) :
                         /\ IsListLine(ls[k])
                         /\ (k = 1 \/ ~IsListLine(ls[k - 1])) })

\* C12: in the converted content of a slide every list line has become one
\* <li> element, every maximal run of consecutive list lines is wrapped in
\* exactly one <ul> container, and every <li> lies inside a container
\* (the list items are made before the lists are wrapped).
C12_ListsWrapped ==
    script = "preview" =>
        \A k \in 1..Len(report) :
            LET c == report[k].content
                slide == slideArray[report[k].number]
            IN /\ Count(c, LiOpen) = Len(ListLines(slide))
               /\ Count(c, UlOpen) = ListRuns(slide)
               /\ Count(c, UlClose) = ListRuns(slide)
               /\ \A p \in 1..Len(c) :
                      MatchAt(c, LiOpen, p) =>
                          CountBefore(c, UlOpen, p)
                              = CountBefore(c, UlClose, p) + 1

C12_Witness ==
    /\ script = "preview" /\ pc = "done"
    /\ Len(report) = 1
    /\ Len(ListLines(slideArray[1])) = 3
    /\ ListRuns(slideArray[1]) = 2
    /\ Count(report[1].content, UlOpen) = 2

\* C13: for a deck that opens with a delimiter-fenced metadata block, the
\* text of the block appears in the converted content of no slide.
C13_MetadataStripped ==
    (/\ script = "preview" /\ pc = "done"
     /\ OpensWithFenced(slides, LayoutCover))
        => \A k \in 1..Len(report) :
               ~Includes(report[k].content, LayoutCover)

\* C14: text of a slide that matches no rule of the conversion reaches the
\* output escaped, so a raw <script> tag of the slide text is never in the
\* converted content as markup.
C14_RawTextEscaped ==
    script = "preview" =>
        \A k \in 1..Len(report) :
            ~Includes(report[k].content, ScriptOpen)

H1Title ==
    HeadingOpen(1) \o <<"T", "i", "t", "l", "e">> \o HeadingClose(1)

H2Second ==
    HeadingOpen(2) \o <<"S", "e", "c", "o", "n", "d">> \o HeadingClose(2)

\* the number of occurrences of a pattern in the contents of all slides
RECURSIVE CountInReport(_, _)
CountInReport(blocks, pattern) ==
    IF blocks = <<>> THEN 0
    ELSE Count(Head(blocks).content, pattern)
             + CountInReport(Tail(blocks), pattern)

\* C15: the deck "# Title\n\n---\n## Second\ncontent\n" is split into exactly
\* two slides, and the converted contents hold exactly one <h1>Title</h1>
\* and exactly one <h2>Second</h2>, the h1 in the slide before the h2.
C15_EndToEnd ==
    (script = "preview" /\ pc = "done" /\ slides = EndToEndInput)
        => /\ Len(slideArray) = 2
           /\ summary.totalSlides = 2
           /\ Len(report) = 2
           /\ CountInReport(report, H1Title) = 1
           /\ CountInReport(report, H2Second) = 1
           /\ CountInReport(report, <<"<", "h", "1", ">">>) = 1
           /\ CountInReport(report, <<"<", "h", "2", ">">>) = 1
           /\ Includes(report[1].content, H1Title)
           /\ Includes(report[2].content, H2Second)

C15_Witness ==
    /\ script = "preview" /\ pc = "done" /\ slides = EndToEndInput
    /\ Len(report) = 2
    /\ Includes(report[2].content, H2Second)

\* the pages whose failure the screenshot script has logged
FailedPages ==
    { report[k].number :
          k \in { j \in 1..Len(report) :
                      report[j].kind = "could not capture" } }

\* C17: the screenshot script visits the pages 1, 2, 3, ... in this order,
\* each after the screenshot of the one before; when the navigation to
\* page i or its screenshot fails, the failure is logged, no page after i is
\* ever visited, and the screenshots of the pages 1..i-1 stay in place.
C17_CaptureStopsAtFailure ==
    script = "capture" =>
        /\ visits = [k \in 1..Len(visits) |-> k]
        /\ Len(visits) <= PageLimit
        /\ Cardinality(FailedPages) <= 1
        /\ \A i \in FailedPages :
               /\ Len(visits) = i
               /\ shots = 1..(i - 1)
               /\ pc \in {"close", "done", "failed"}
        /\ FailedPages = {} =>
               IF pc = "shot" THEN shots = 1..(Len(visits) - 1)
               ELSE shots = 1..Len(visits)

C17_Witness ==
    /\ script = "capture" /\ pc = "done"
    /\ FailedPages = {3}
    /\ visits = <<1, 2, 3>>
    /\ shots = {1, 2}

\* C18: generate-preview never changes a slide after the split: at every
\* step the slide array is the one the split produced, so the summary that
\* is computed after the conversion of the slides is the summary of the
\* slide array as it was before the conversion.
C18_DeckImmutable ==
    (script = "preview" /\ Started)
        => /\ slideArray = PreviewSlideArray(slides)
           /\ pc = "done" => summary = SummaryOf(PreviewSlideArray(slides))

C18_Witness ==
    /\ script = "preview" /\ pc = "done"
    /\ Len(report) >= 2
    /\ summary.totalSlides = Len(report)
    /\ summary.slidesWithCode >= 1
    /\ \E k \in 1..Len(report) :
           report[k].content # slideArray[report[k].number]

\* C20: the body of a fenced code block is in the converted content inside
\* its code element unchanged: a slide that is one fence with one line of
\* code gives <pre><code>, the line as written, </code></pre>.
C20_FenceBodyUnchanged ==
    script = "preview" =>
        \A k \in 1..Len(report) :
            \A open \in FenceOpenings, body \in CodeLines :
                slideArray[report[k].number] = open \o body \o Fence \o NL
                    => Includes(report[k].content,
                                PreOpen \o body \o PreClose)

\* the scripts and tests that check the slides one by one
PerSlideChecks == {"verify", "visualLong", "visualHeadings", "balanced"}

\* C19 as stated: a violation on one slide never stops the checks, so
\* after the run every slide of the deck has been checked.
C19_FullReport ==
    (script \in PerSlideChecks /\ Finished) => index = Len(slideArray)

\* C19: verify-slides never stops at an issue: when it ends, its report
\* has one entry per slide, in order, each with all the issues of its
\* slide.  A test stops at the expectation that fails: the slide it fails
\* at is the last one it checks, and the slides after it are left unchecked.
C19_VerifyReportsAll ==
    /\ script = "verify" =>
           /\ pc # "failed"
           /\ pc = "done" =>
                  /\ Len(report) = Len(slideArray)
                  /\ \A k \in 1..Len(report) :
                         /\ report[k].number = k
                         /\ report[k].issues = VerifyIssues(slideArray[k])
    /\ (script \in PerSlideChecks /\ pc = "failed") =>
           /\ index < Len(slideArray)
           /\ failure.number = index + 1

C19_Witness ==
    /\ script = "verify" /\ pc = "done"
    /\ Len(report) >= 2
    /\ report[1].issues # <<>>

\* C21: a run of captureSlides that has launched the browser has closed it
\* when it ends, whichever step after the launch failed.
C21_BrowserClosed ==
    (script = "capture" /\ Finished /\ browser # "none")
        => browser = "closed"

====
